---- MODULE Spec2Model ----
(***************************************************************************)
(* LocalRunner (opencompass/runners/local.py): a batch of tasks is run     *)
(* either sequentially (debug mode) or by a ThreadPoolExecutor whose       *)
(* workers share the numpy array `gpus` of free slots under one Lock.      *)
(*                                                                         *)
(* A task is identified with its 1-based position in `tasks`; tasks[j] is  *)
(* the task's num_gpus.  `gpus` is a function on 0..max(all_gpu_ids).      *)
(* The array has dtype uint; the only decrement (line 103) is applied to   *)
(* entries returned by np.where(gpus), which are non-zero, and is modelled *)
(* with integer subtraction.                                               *)
(***************************************************************************)
EXTENDS Integers, Sequences, FiniteSets, TLC

\* ---- bounds of the model ----
MaxJobs == 2
MaxDemand == 2
MaxGpuId == 1
MaxWorkers == 2
MaxWorkersPerGpu == 2
MaxEnvLen == 3

VARIABLES
    cuda_visible_devices, \* os.getenv('CUDA_VISIBLE_DEVICES'), a sequence of characters
    id_list,              \* all_gpu_ids as the list of lines 78-81
    debug,                \* self.debug
    max_num_workers,      \* self.max_num_workers
    max_workers_per_gpu,  \* self.max_workers_per_gpu
    all_gpu_ids,          \* the ids of id_list, as a set
    tasks,                \* the batch: tasks[j] = num_gpus of task j
    gpus,                 \* free slots per id (lines 85-89)
    lock,                 \* 0 = free, j = held by the worker of task j
    pc,                   \* position of each task's handling
    gpu_ids,              \* ids granted to a task and not given back
    returncode,           \* exit code of the task's execution, NoCode if none
    param_files,          \* tasks whose temporary config file exists
    launchpc,             \* "discover" | "running" | "returned" | "raised"
    status,               \* the outcomes the caller obtains from launch
    raisedOut             \* an exception reached the caller

vars == <<cuda_visible_devices, id_list, debug, max_num_workers, max_workers_per_gpu, all_gpu_ids, tasks,
          gpus, lock, pc, gpu_ids, returncode, param_files, launchpc,
          status, raisedOut>>

\* ---- helpers ----
NoCode == -1

\* what a child process can return: success, or a failure code
ExitCodes == {0, 7}

Jobs == 1..Len(tasks)

Range(s) == {s[i] : i \in 1..Len(s)}

Max(S) == CHOOSE x \in S : \A y \in S : y <= x

RECURSIVE SortedSeq(_)
SortedSeq(S) ==
    IF S = {} THEN <<>>
    ELSE LET m == CHOOSE x \in S : \A y \in S : x <= y
         IN  <<m>> \o SortedSeq(S \ {m})

TakeLast(s, n) == SubSeq(s, (IF n < Len(s) THEN Len(s) - n ELSE 0) + 1, Len(s))

\* s[:n]
Take(s, n) == SubSeq(s, 1, IF n < Len(s) THEN n ELSE Len(s))

\* ---- the visibility list (lines 77-81) ----

\* the characters the enumerated values of the variable are made of
EnvChars == {"-", ",", "0", "1", "2"}

EnvStrings == UNION {[1..n -> EnvChars] : n \in 0..MaxEnvLen}

DigitChars == <<"0", "1", "2", "3", "4", "5", "6", "7", "8", "9">>

\* \d
IsDigit(c) == c \in Range(DigitChars)

DigitVal(c) == (CHOOSE i \in 1..Len(DigitChars) : DigitChars[i] = c) - 1

RECURSIVE IntOf(_)
\* int(i) of a run of digits
IntOf(d) ==
    IF d = <<>> THEN 0
    ELSE 10 * IntOf(SubSeq(d, 1, Len(d) - 1)) + DigitVal(d[Len(d)])

RECURSIVE RunEnd(_, _)
\* \d+ is greedy: the last position of the run of digits that starts at i
RunEnd(s, i) ==
    IF i < Len(s) /\ IsDigit(s[i + 1]) THEN RunEnd(s, i + 1) ELSE i

\* (?<!-): the character before position i is not a minus sign
NotAfterMinus(s, i) == i = 1 \/ s[i - 1] # "-"

RECURSIVE FindAll(_, _)
\* re.findall(r'(?<!-)\d+', s): scan from position i; a match starts at the
\* first digit the look-behind accepts, and the scan resumes after the match
FindAll(s, i) ==
    IF i > Len(s) THEN <<>>
    ELSE IF IsDigit(s[i]) /\ NotAfterMinus(s, i)
         THEN <<SubSeq(s, i, RunEnd(s, i))>> \o FindAll(s, RunEnd(s, i) + 1)
         ELSE FindAll(s, i + 1)

\* lines 78-81: [int(i) for i in re.findall(...)]
ParseIds(s) == LET m == FindAll(s, 1) IN [k \in 1..Len(m) |-> IntOf(m[k])]

RECURSIVE Join(_)
\* a value of the variable that lists the ids of q, separated by commas
Join(q) ==
    IF q = <<>> THEN <<>>
    ELSE IF Len(q) = 1 THEN <<DigitChars[q[1] + 1]>>
    ELSE <<DigitChars[q[1] + 1], ",">> \o Join(Tail(q))

RECURSIVE WrittenIds(_, _)
\* the integers written in s from position i on: the maximal runs of digits,
\* without those that directly follow a minus sign
WrittenIds(s, i) ==
    IF i > Len(s) THEN <<>>
    ELSE IF ~IsDigit(s[i]) THEN WrittenIds(s, i + 1)
    ELSE LET e == RunEnd(s, i)
         IN  (IF NotAfterMinus(s, i) THEN <<IntOf(SubSeq(s, i, e))>> ELSE <<>>)
                 \o WrittenIds(s, e + 1)

\* lines 85-89: zeros(max + 1), then gpus[all_gpu_ids] = max_workers_per_gpu
InitGpus(ids, wpg) ==
    IF ids = {} THEN [i \in {} |-> 0]
    ELSE [i \in 0..Max(ids) |-> IF i \in ids THEN wpg ELSE 0]

\* len(gpus)
LenGpus(g) == Cardinality(DOMAIN g)

NumFreeButOne(g) == Cardinality({i \in DOMAIN g : g[i] > 0}) - 1

\* line 101: sum(gpus > 0)
NumFree(g) == Cardinality({i \in DOMAIN g : g[i] > 0})

WhereAll(g) == SortedSeq(DOMAIN g)

\* line 102: np.where(gpus)[0], the indices of the non-zero entries, ascending
Where(g) == SortedSeq({i \in DOMAIN g : g[i] # 0})

\* line 102: np.where(gpus)[0][:num_gpus]
SelectIds(g, n) == Range(Take(Where(g), n))

DecNone(g, ids) == g

\* line 103: gpus[gpu_ids] -= 1
Dec(g, ids) == [i \in DOMAIN g |-> IF i \in ids THEN g[i] - 1 ELSE g[i]]

\* line 119: gpus[gpu_ids] += 1
Inc(g, ids) == [i \in DOMAIN g |-> IF i \in ids THEN g[i] + 1 ELSE g[i]]

\* tasks whose submit body has started and has not returned or raised
InFlight == {j \in Jobs : pc[j] \notin {"queued", "pending", "done", "raised"}}

WorkerAvailableAlways == TRUE

\* line 124: ThreadPoolExecutor(max_workers=self.max_num_workers)
WorkerAvailable == Cardinality(InFlight) < max_num_workers

Outcome(j, c) == [name |-> j, code |-> c]

RECURSIVE ConsumeLastFirst(_)
ConsumeLastFirst(j) ==
    IF j > Len(tasks) \/ pc[j] = "raised" THEN <<>>
    ELSE ConsumeLastFirst(j + 1) \o <<Outcome(j, returncode[j])>>

RECURSIVE Consume(_)
\* line 125-127: the iterator of executor.map yields the results in input
\* order and re-raises the first stored exception
Consume(j) ==
    IF j > Len(tasks) \/ pc[j] = "raised" THEN <<>>
    ELSE <<Outcome(j, returncode[j])>> \o Consume(j + 1)

\* ---- initial state: after __init__ and lines 57, 76-92 of launch ----
Init ==
    /\ debug \in BOOLEAN
    /\ max_num_workers \in 1..MaxWorkers
    /\ max_workers_per_gpu \in 1..MaxWorkersPerGpu
    /\ \E S \in SUBSET (0..MaxGpuId) : cuda_visible_devices = Join(SortedSeq(S))
    /\ id_list = ParseIds(cuda_visible_devices)
    /\ all_gpu_ids = Range(id_list)
    /\ tasks \in UNION {[1..n -> 0..MaxDemand] : n \in 1..MaxJobs}
    /\ gpus = InitGpus(all_gpu_ids, max_workers_per_gpu)
    /\ lock = 0
    /\ pc = [j \in Jobs |-> IF debug THEN "pending" ELSE "queued"]
    /\ gpu_ids = [j \in Jobs |-> {}]
    /\ returncode = [j \in Jobs |-> NoCode]
    /\ param_files = {}
    /\ launchpc = "running"
    /\ status = <<>>
    /\ raisedOut = FALSE

\* ---- debug mode (lines 58-74) ----

\* an exception in the loop body leaves launch
DebugRaise(j) ==
    /\ pc' = [pc EXCEPT ![j] = "raised"]
    /\ launchpc' = "raised"
    /\ raisedOut' = TRUE

\* lines 60-67: build the task, dump its config, get the command
DebugPrepare(j) ==
    /\ debug /\ launchpc = "running"
    /\ pc[j] = "pending"
    /\ \A k \in 1..(j - 1) : pc[k] = "done"
    /\ \/ /\ pc' = [pc EXCEPT ![j] = "drun"]
          /\ param_files' = param_files \cup {j}
          /\ UNCHANGED <<launchpc, raisedOut>>
       \/ /\ DebugRaise(j)
          /\ UNCHANGED param_files
    /\ UNCHANGED <<cuda_visible_devices, id_list, debug, max_num_workers, max_workers_per_gpu, all_gpu_ids,
                   tasks, gpus, lock, gpu_ids, returncode, status>>

\* lines 69-72: task.run() in process, or subprocess.run whose result is dropped
DebugRun(j) ==
    /\ debug /\ launchpc = "running"
    /\ pc[j] = "drun"
    /\ \/ \E inproc \in BOOLEAN, c \in ExitCodes :
            /\ returncode' = [returncode EXCEPT ![j] = IF inproc THEN 0 ELSE c]
            /\ pc' = [pc EXCEPT ![j] = "dremove"]
            /\ UNCHANGED <<launchpc, raisedOut>>
       \/ /\ DebugRaise(j)
          /\ UNCHANGED returncode
    /\ UNCHANGED <<cuda_visible_devices, id_list, debug, max_num_workers, max_workers_per_gpu, all_gpu_ids,
                   tasks, gpus, lock, gpu_ids, param_files, status>>

\* lines 73-74: os.remove(param_file); status.append((task_name, 0))
DebugFinish(j) ==
    /\ debug /\ launchpc = "running"
    /\ pc[j] = "dremove"
    /\ param_files' = param_files \ {j}
    /\ status' = Append(status, Outcome(j, 0))
    /\ pc' = [pc EXCEPT ![j] = "done"]
    /\ UNCHANGED <<cuda_visible_devices, id_list, debug, max_num_workers, max_workers_per_gpu, all_gpu_ids,
                   tasks, gpus, lock, gpu_ids, returncode, launchpc, raisedOut>>

\* line 127 after the loop of lines 59-74
DebugReturn ==
    /\ debug /\ launchpc = "running"
    /\ \A j \in Jobs : pc[j] = "done"
    /\ launchpc' = "returned"
    /\ UNCHANGED <<cuda_visible_devices, id_list, debug, max_num_workers, max_workers_per_gpu, all_gpu_ids,
                   tasks, gpus, lock, pc, gpu_ids, returncode, param_files,
                   status, raisedOut>>

\* ---- pooled mode (lines 75-127) ----

\* an exception in submit is stored in the task's future; the worker thread
\* goes on to the next work item
Raise(j) == pc' = [pc EXCEPT ![j] = "raised"]

\* lines 123-125 and 95-97: a worker thread takes the next work item, in input
\* order, and begins submit: TASKS.build, then assert len(gpus) >= num_gpus
Start(j) ==
    /\ ~debug /\ launchpc = "running"
    /\ pc[j] = "queued"
    /\ \A k \in 1..(j - 1) : pc[k] # "queued"
    /\ WorkerAvailable
    /\ \/ /\ LenGpus(gpus) >= tasks[j]
          /\ pc' = [pc EXCEPT ![j] = "poll"]
       \/ Raise(j)
    /\ UNCHANGED <<cuda_visible_devices, id_list, debug, max_num_workers, max_workers_per_gpu, all_gpu_ids,
                   tasks, gpus, lock, gpu_ids, returncode, param_files,
                   launchpc, status, raisedOut>>

LockFreeAlways == TRUE

\* lines 100, 118: a Lock is acquired only when no thread holds it
LockFree == lock = 0

\* line 100: lock.acquire()
LockAcquire(j) ==
    /\ ~debug
    /\ pc[j] = "poll"
    /\ LockFree
    /\ lock' = j
    /\ pc' = [pc EXCEPT ![j] = "check"]
    /\ UNCHANGED <<cuda_visible_devices, id_list, debug, max_num_workers, max_workers_per_gpu, all_gpu_ids,
                   tasks, gpus, gpu_ids, returncode, param_files,
                   launchpc, status, raisedOut>>

CanAcquireInTurn(j) ==
    /\ NumFree(gpus) >= tasks[j]
    /\ \A k \in 1..(j - 1) : pc[k] \notin {"poll", "check", "sleep"}

\* line 101: the test of a polling iteration
CanAcquire(j) == NumFree(gpus) >= tasks[j]

RefusedKeepingPart(j) ==
    LET ids == SelectIds(gpus, tasks[j])
    IN  /\ gpu_ids' = [gpu_ids EXCEPT ![j] = ids]
        /\ gpus' = Dec(gpus, ids)
        /\ pc' = [pc EXCEPT ![j] = "sleep"]

\* lines 106-107: a failed polling iteration goes to sleep
Refused(j) ==
    /\ pc' = [pc EXCEPT ![j] = "sleep"]
    /\ UNCHANGED <<gpus, gpu_ids>>

\* lines 101-106: decide, mutate the table, release the lock
TryAcquire(j) ==
    /\ ~debug
    /\ pc[j] = "check"
    /\ lock = j
    /\ IF CanAcquire(j)
       THEN LET ids == SelectIds(gpus, tasks[j])
            IN  /\ gpu_ids' = [gpu_ids EXCEPT ![j] = ids]
                /\ gpus' = Dec(gpus, ids)
                /\ pc' = [pc EXCEPT ![j] = "dump"]
       ELSE Refused(j)
    /\ lock' = 0
    /\ UNCHANGED <<cuda_visible_devices, id_list, debug, max_num_workers, max_workers_per_gpu, all_gpu_ids,
                   tasks, returncode, param_files, launchpc, status, raisedOut>>

\* line 107: time.sleep(1)
Sleep(j) ==
    /\ ~debug
    /\ pc[j] = "sleep"
    /\ pc' = [pc EXCEPT ![j] = "poll"]
    /\ UNCHANGED <<cuda_visible_devices, id_list, debug, max_num_workers, max_workers_per_gpu, all_gpu_ids,
                   tasks, gpus, lock, gpu_ids, returncode, param_files,
                   launchpc, status, raisedOut>>

\* _launch, lines 139-150: dump the config to the temporary file
Dump(j) ==
    /\ ~debug
    /\ pc[j] = "dump"
    /\ \/ /\ pc' = [pc EXCEPT ![j] = "run"]
          /\ param_files' = param_files \cup {j}
       \/ /\ Raise(j)
          /\ UNCHANGED param_files
    /\ UNCHANGED <<cuda_visible_devices, id_list, debug, max_num_workers, max_workers_per_gpu, all_gpu_ids,
                   tasks, gpus, lock, gpu_ids, returncode, launchpc, status,
                   raisedOut>>

\* _launch, lines 156-167: open the log file, subprocess.run waits for the child
Run(j) ==
    /\ ~debug
    /\ pc[j] = "run"
    /\ \/ \E c \in ExitCodes :
            /\ returncode' = [returncode EXCEPT ![j] = c]
            /\ pc' = [pc EXCEPT ![j] = "remove"]
       \/ /\ Raise(j)
          /\ UNCHANGED returncode
    /\ UNCHANGED <<cuda_visible_devices, id_list, debug, max_num_workers, max_workers_per_gpu, all_gpu_ids,
                   tasks, gpus, lock, gpu_ids, param_files, launchpc, status,
                   raisedOut>>

\* _launch, lines 170-171, and line 116: remove the file, return, pbar.update()
Remove(j) ==
    /\ ~debug
    /\ pc[j] = "remove"
    /\ param_files' = param_files \ {j}
    /\ pc' = [pc EXCEPT ![j] = "release"]
    /\ UNCHANGED <<cuda_visible_devices, id_list, debug, max_num_workers, max_workers_per_gpu, all_gpu_ids,
                   tasks, gpus, lock, gpu_ids, returncode, launchpc, status,
                   raisedOut>>

\* line 118: with lock (enter)
ReleaseLock(j) ==
    /\ ~debug
    /\ pc[j] = "release"
    /\ LockFree
    /\ lock' = j
    /\ pc' = [pc EXCEPT ![j] = "releasing"]
    /\ UNCHANGED <<cuda_visible_devices, id_list, debug, max_num_workers, max_workers_per_gpu, all_gpu_ids,
                   tasks, gpus, gpu_ids, returncode, param_files,
                   launchpc, status, raisedOut>>

\* lines 119-121: give the slots back, leave the with block, return res
Release(j) ==
    /\ ~debug
    /\ pc[j] = "releasing"
    /\ lock = j
    /\ gpus' = Inc(gpus, gpu_ids[j])
    /\ gpu_ids' = [gpu_ids EXCEPT ![j] = {}]
    /\ lock' = 0
    /\ pc' = [pc EXCEPT ![j] = "done"]
    /\ UNCHANGED <<cuda_visible_devices, id_list, debug, max_num_workers, max_workers_per_gpu, all_gpu_ids,
                   tasks, returncode, param_files, launchpc, status, raisedOut>>

\* lines 123-127: the with block waits for every future, launch returns the
\* iterator of executor.map and the caller consumes it
Return ==
    /\ ~debug /\ launchpc = "running"
    /\ \A j \in Jobs : pc[j] \in {"done", "raised"}
    /\ launchpc' = "returned"
    /\ status' = Consume(1)
    /\ raisedOut' = (\E j \in Jobs : pc[j] = "raised")
    /\ UNCHANGED <<cuda_visible_devices, id_list, debug, max_num_workers, max_workers_per_gpu, all_gpu_ids,
                   tasks, gpus, lock, pc, gpu_ids, returncode, param_files>>

\* ---- what the claims speak about ----

\* lines 85-89: the fixed capacity of an id
Capacity(i) == IF i \in all_gpu_ids THEN max_workers_per_gpu ELSE 0

\* lines 102-119: tasks that were granted id i and have not given it back
Holders(i) == {j \in Jobs : i \in gpu_ids[j]}

\* lines 108-119: tasks between the break of line 105 and the end of line 119
Running == {j \in Jobs : pc[j] \in {"dump", "run", "remove", "release", "releasing"}}

\* lines 99-107: tasks in the polling loop
Polling == {j \in Jobs : pc[j] \in {"poll", "check", "sleep"}}

\* launch is over: it returned or an exception left it
LaunchOver == launchpc \in {"returned", "raised"}

\* C1: when launch is over, the caller holds exactly one Outcome per input
\* task: as many outcomes as tasks, each task named exactly once.
C1_OneOutcomePerJob ==
    LaunchOver =>
        /\ Len(status) = Len(tasks)
        /\ \A j \in Jobs :
             Cardinality({i \in 1..Len(status) : status[i].name = j}) = 1

\* C2: in pooled mode, for every resource id, the number of tasks holding the
\* id is at most its fixed capacity (max_workers_per_gpu inside the inventory,
\* 0 outside), and no free counter is below 0.
C2_NoOversubscription ==
    ~debug =>
        /\ \A i \in 0..(MaxGpuId + 1) : Cardinality(Holders(i)) <= Capacity(i)
        /\ \A i \in DOMAIN gpus : gpus[i] >= 0

\* an id is held at full capacity while another task, refused, sleeps
C2_Witness ==
    /\ ~debug
    /\ \E i \in all_gpu_ids : Cardinality(Holders(i)) = Capacity(i)
    /\ \E j \in Jobs : pc[j] = "sleep" /\ tasks[j] > 0
    /\ \E j \in Running : gpu_ids[j] # {}

\* C3 (as claimed): for every max_workers_per_gpu, two running tasks never
\* hold the same resource id.
C3_DisjointGrants ==
    \A j \in Running : \A k \in Running :
        j # k => gpu_ids[j] \cap gpu_ids[k] = {}

\* C3 (amended): with max_workers_per_gpu = 1, two tasks never hold the same
\* resource id, whether they are running or ended without giving it back.
C3_DisjointGrantsOneWorkerPerGpu ==
    max_workers_per_gpu = 1 =>
        \A j \in Jobs : \A k \in Jobs :
            j # k => gpu_ids[j] \cap gpu_ids[k] = {}

\* two tasks run at once, each on an id of its own
C3_Witness ==
    /\ max_workers_per_gpu = 1
    /\ \E j \in Running : \E k \in Running :
         j # k /\ gpu_ids[j] # {} /\ gpu_ids[k] # {}

\* C4: in pooled mode the number of in-flight tasks (polling or running) is at
\* most max_num_workers.
C4_InFlightBounded ==
    ~debug => Cardinality(InFlight) <= max_num_workers

\* every worker is busy and a task waits in the executor's queue
C4_Witness ==
    /\ ~debug
    /\ Cardinality(InFlight) = max_num_workers
    /\ \E j \in Jobs : pc[j] = "queued"

\* C5: a task whose demand exceeds the number of ids with non-zero capacity
\* never enters the polling loop.
C5_OverDemandRejected ==
    \A j \in Polling : tasks[j] <= Cardinality(all_gpu_ids)

\* C6: when a worker's handling of a task has ended, by return or by an
\* exception, the task holds no granted id.
C6_ReleasedOnEveryExit ==
    \A j \in Jobs : pc[j] \in {"done", "raised"} => gpu_ids[j] = {}

\* C7: in pooled mode no free counter exceeds its initial value, and when
\* launch has returned the slot table equals its initial value.
C7_SlotsConserved ==
    ~debug =>
        /\ \A i \in DOMAIN gpus :
             gpus[i] <= InitGpus(all_gpu_ids, max_workers_per_gpu)[i]
        /\ launchpc = "returned" =>
             gpus = InitGpus(all_gpu_ids, max_workers_per_gpu)

\* C8: in both modes the exit code of every Outcome is the exit code of the
\* task's execution.
C8_OutcomeCarriesExitCode ==
    \A i \in 1..Len(status) : status[i].code = returncode[status[i].name]

\* C9: in pooled mode, when launch has returned, no exception reaches the
\* caller and every task whose handling raised has an Outcome with a non-zero
\* exit code.
C9_FaultBecomesOutcome ==
    (~debug /\ launchpc = "returned") =>
        /\ ~raisedOut
        /\ \A j \in Jobs :
             pc[j] = "raised" =>
                 \E i \in 1..Len(status) :
                     status[i].name = j /\ status[i].code # 0

\* C10: in both modes, when launch is over every task of the batch has been
\* started and its handling has ended: no task is left unstarted because
\* another one failed.
C10_FailureCancelsNothing ==
    LaunchOver => \A j \in Jobs : pc[j] \in {"done", "raised"}

\* C11: in pooled mode a task with demand 0 never goes to sleep in the polling
\* loop: its polling iteration succeeds whatever the slot table holds, grants
\* it the empty id set and leaves the slot table unchanged.
C11_ZeroDemandNeverWaits ==
    [][\A j \in Jobs :
         (~debug /\ tasks[j] = 0) =>
             /\ pc'[j] # "sleep"
             /\ (pc[j] = "check" /\ pc'[j] # "check") =>
                    /\ pc'[j] = "dump"
                    /\ gpu_ids'[j] = {}
                    /\ gpus' = gpus]_vars

\* a task of demand 0 has acquired while no id has a free slot
C11_Witness ==
    /\ ~debug
    /\ \E j \in Jobs :
         /\ tasks[j] = 0 /\ pc[j] = "dump" /\ gpu_ids[j] = {}
         /\ all_gpu_ids # {}
         /\ \A i \in DOMAIN gpus : gpus[i] = 0

\* C12: in debug mode the tasks run one at a time in input order (a task has
\* left "pending" only when every earlier one is done), the lock is never
\* taken, the slot table and the grants are never written, and every task
\* yields exactly one Outcome: never two, and one when launch is over.
C12_DebugSequentialOneOutcome ==
    debug =>
        /\ \A j \in Jobs :
             pc[j] # "pending" => \A k \in 1..(j - 1) : pc[k] = "done"
        /\ Cardinality(InFlight) <= 1
        /\ lock = 0
        /\ gpus = InitGpus(all_gpu_ids, max_workers_per_gpu)
        /\ \A j \in Jobs : gpu_ids[j] = {}
        /\ \A j \in Jobs :
             Cardinality({i \in 1..Len(status) : status[i].name = j}) <= 1
        /\ LaunchOver =>
             \A j \in Jobs :
                 Cardinality({i \in 1..Len(status) : status[i].name = j}) = 1

\* C13: in pooled mode, when launch has returned, the i-th Outcome the caller
\* obtains carries the name and the exit code of the i-th submitted task.
C13_OutcomesInInputOrder ==
    (~debug /\ launchpc = "returned") =>
        \A i \in 1..Len(status) :
            status[i].name = i /\ status[i].code = returncode[i]

\* launch returned several outcomes whose exit codes differ
C13_Witness ==
    /\ ~debug /\ launchpc = "returned"
    /\ Len(status) >= 2
    /\ status[1].code # status[2].code

\* C14: in pooled mode, when every task's demand is at most the number of ids
\* with non-zero capacity, launch eventually returns (every task has acquired
\* its ids, run and ended), under the fairness of FairSpec.
C14_EveryJobCompletes ==
    (~debug /\ \A j \in Jobs : tasks[j] <= Cardinality(all_gpu_ids))
        => <>(launchpc = "returned")

\* C15: in pooled mode a worker is in a section that reads or writes the
\* counters exactly when it holds the lock (so at most one worker is in such a
\* section, and none holds the lock while it sleeps or its child runs), and
\* every step that changes the slot table is taken by the holder of the lock.
C15_TableOnlyUnderLock ==
    [][~debug =>
         /\ \A j \in Jobs : (pc'[j] \in {"check", "releasing"}) <=> (lock' = j)
         /\ lock' \in {0} \cup Jobs
         /\ gpus' # gpus =>
              /\ lock \in Jobs
              /\ pc[lock] \in {"check", "releasing"}
              /\ pc'[lock] \notin {"check", "releasing"}]_vars

\* a worker holds the lock while another one's child process runs and the
\* lock holder is about to write the table
C15_Witness ==
    /\ ~debug
    /\ \E j \in Jobs : \E k \in Jobs :
         /\ lock = j /\ pc[j] = "releasing" /\ gpu_ids[j] # {}
         /\ pc[k] = "run"

\* C16: when a polling iteration of task j succeeds, the granted set has
\* tasks[j] distinct ids, all in the inventory and all with a free slot before
\* the step, every free id left out is larger than every granted one, each
\* granted id loses exactly one slot and every other counter is unchanged.
C16_GrantsSmallestFreeIds ==
    [][\A j \in Jobs :
         (~debug /\ pc[j] = "check" /\ pc'[j] = "dump") =>
             LET free == {i \in DOMAIN gpus : gpus[i] > 0}
                 got == gpu_ids'[j]
             IN  /\ got \subseteq free
                 /\ got \subseteq all_gpu_ids
                 /\ Cardinality(got) = tasks[j]
                 /\ \A a \in got : \A b \in free \ got : a < b
                 /\ DOMAIN gpus' = DOMAIN gpus
                 /\ \A i \in DOMAIN gpus :
                      gpus'[i] = IF i \in got THEN gpus[i] - 1 ELSE gpus[i]]_vars

\* a task was granted the smaller of two free ids; the larger one is untouched
C16_Witness ==
    /\ ~debug
    /\ all_gpu_ids = {0, 1}
    /\ \E j \in Jobs :
         /\ pc[j] = "dump" /\ tasks[j] = 1 /\ gpu_ids[j] = {0}
         /\ gpus[1] = max_workers_per_gpu
         /\ \A k \in Jobs \ {j} : pc[k] = "queued"

\* C17: acquisition is not FIFO: a polling iteration that finds enough ids
\* with a free slot succeeds even when a task submitted earlier is still in
\* the polling loop, so a later, smaller task can acquire ahead of it.
C17_AcquireIgnoresEarlierWaiters ==
    [][\A j \in Jobs :
         (/\ ~debug
          /\ pc[j] = "check" /\ pc'[j] # "check"
          /\ Cardinality({i \in DOMAIN gpus : gpus[i] > 0}) >= tasks[j])
         => pc'[j] = "dump"]_vars

\* an earlier task with the larger, satisfiable demand has been refused and
\* sleeps in the polling loop while a later, smaller task holds its ids
C17_Witness ==
    /\ ~debug
    /\ \E j \in Jobs : \E k \in Jobs :
         /\ j < k /\ tasks[j] > tasks[k]
         /\ tasks[j] <= Cardinality(all_gpu_ids)
         /\ pc[j] = "sleep" /\ gpu_ids[j] = {}
         /\ pc[k] \in {"dump", "run", "remove"} /\ gpu_ids[k] # {}

\* C18: in pooled mode, when the handling of a task has ended, by return or by
\* an exception, its temporary config file is gone; when launch has returned
\* no temporary config file remains.
C18_ParamFileRemoved ==
    ~debug =>
        /\ \A j \in Jobs : pc[j] \in {"done", "raised"} => j \notin param_files
        /\ launchpc = "returned" => param_files = {}

\* C20: acquisition is all-or-nothing: a worker that is queued or in the
\* polling loop holds no id, and a failed polling iteration changes neither
\* the slot table nor any grant.
C20_AllOrNothing ==
    [][\A j \in Jobs :
         ~debug =>
             /\ pc'[j] \in {"queued", "poll", "check", "sleep"}
                    => gpu_ids'[j] = {}
             /\ (pc[j] = "check" /\ pc'[j] = "sleep")
                    => (gpus' = gpus /\ gpu_ids' = gpu_ids)]_vars

\* a task that needs two ids sleeps, holding nothing, while one id is free
C20_Witness ==
    /\ ~debug
    /\ \E j \in Jobs :
         /\ pc[j] = "sleep" /\ tasks[j] = 2 /\ gpu_ids[j] = {}
         /\ Cardinality({i \in DOMAIN gpus : gpus[i] > 0}) = 1
         /\ Cardinality(all_gpu_ids) = 2

\* C19: once the inventory is discovered, it is the list of the integers
\* written in the visibility variable that do not directly follow a minus
\* sign; a negative number contributes none of its digits.
C19_InventoryIsWrittenIds ==
    launchpc # "discover" => id_list = WrittenIds(cuda_visible_devices, 1)

Next ==
    \/ \E j \in Jobs : DebugPrepare(j)
    \/ \E j \in Jobs : DebugRun(j)
    \/ \E j \in Jobs : DebugFinish(j)
    \/ DebugReturn
    \/ \E j \in Jobs : Start(j)
    \/ \E j \in Jobs : LockAcquire(j)
    \/ \E j \in Jobs : TryAcquire(j)
    \/ \E j \in Jobs : Sleep(j)
    \/ \E j \in Jobs : Dump(j)
    \/ \E j \in Jobs : Run(j)
    \/ \E j \in Jobs : Remove(j)
    \/ \E j \in Jobs : ReleaseLock(j)
    \/ \E j \in Jobs : Release(j)
    \/ Return

Spec == Init /\ [][Next]_vars

\* ---- discovery of the inventory alone, for every value of the variable ----

ParseInit ==
    /\ cuda_visible_devices \in EnvStrings
    /\ id_list = <<>>
    /\ all_gpu_ids = {}
    /\ launchpc = "discover"
    /\ debug = FALSE
    /\ max_num_workers = 1
    /\ max_workers_per_gpu = 1
    /\ tasks = <<>>
    /\ gpus = InitGpus({}, 1)
    /\ lock = 0
    /\ pc = <<>>
    /\ gpu_ids = <<>>
    /\ returncode = <<>>
    /\ param_files = {}
    /\ status = <<>>
    /\ raisedOut = FALSE

\* lines 77-89: parse the variable, build the slot table
Discover ==
    /\ launchpc = "discover"
    /\ id_list' = ParseIds(cuda_visible_devices)
    /\ all_gpu_ids' = Range(id_list')
    /\ gpus' = InitGpus(all_gpu_ids', max_workers_per_gpu)
    /\ launchpc' = "running"
    /\ UNCHANGED <<cuda_visible_devices, debug, max_num_workers,
                   max_workers_per_gpu, tasks, lock, pc, gpu_ids, returncode,
                   param_files, status, raisedOut>>

ParseNext == Discover

ParseSpec == ParseInit /\ [][ParseNext]_vars

\* the steps of the worker handling task j that do not wait for the lock
WorkerStep(j) ==
    /\ j \in Jobs
    /\ \/ Start(j) \/ TryAcquire(j) \/ Sleep(j) \/ Dump(j)
       \/ Run(j) \/ Remove(j) \/ Release(j)

\* the steps of the worker handling task j that take the lock
LockStep(j) == j \in Jobs /\ (LockAcquire(j) \/ ReleaseLock(j))

\* every thread keeps running, a child process ends, and a thread blocked on
\* the lock obtains it when the lock is released again and again
Fairness ==
    /\ \A j \in 1..MaxJobs : WF_vars(WorkerStep(j)) /\ SF_vars(LockStep(j))
    /\ WF_vars(Return)

FairSpec == Spec /\ Fairness

====
